---- MODULE Spec2Model ----
(***************************************************************************)
(* Model of src/src/part05.rs: the BigInt value type (a Vec<u64> of limbs, *)
(* least significant first, no trailing zeros), its constructors new and   *)
(* from_vec, the invariant check test_invariant, Clone for BigInt and      *)
(* Clone for SomethingOrNothing<T>.                                        *)
(*                                                                         *)
(* Every Vec buffer lives at an address of a small heap, and every         *)
(* variable of the client program (a slot) holds the address it owns, so   *)
(* that a deep copy and a shared buffer are different states.              *)
(***************************************************************************)
EXTENDS Integers, Sequences

\* Largest limb value of the model; it stands for u64::MAX.
MaxLimb == 1
\* Longest limb vector handed to a constructor or grown by push.
MaxLen == 3

Limb == 0..MaxLimb
\* The radix of the representation: one more than the largest limb (2^64).
Base == MaxLimb + 1
LimbSeqs == UNION {[1..n -> Limb] : n \in 0..MaxLen}

\* The client's variables: a BigInt b and its duplicate d, a
\* SomethingOrNothing<BigInt> o and its duplicate oc.
BigSlot == {"b", "d"}
OptSlot == {"o", "oc"}
\* Every buffer has exactly one owner, so a buffer is named by the variable
\* that owns it; NoAddr is the state of a variable that holds no value.
Addr == BigSlot \cup OptSlot
NoAddr == "none"

VARIABLES heap, big, prov, ret, opt, oprov
vars == <<heap, big, prov, ret, opt, oprov>>

NoProv == [op |-> "none", arg |-> <<>>, re |-> FALSE]
NoRet == [slot |-> "none", val |-> FALSE]
Nothing == [tag |-> "Nothing", data |-> NoAddr]
Something(a) == [tag |-> "Something", data |-> a]
Unset == [tag |-> "Unset", data |-> NoAddr]
NoOProv == [op |-> "none", tag |-> "Unset", arg |-> <<>>]

----------------------------------------------------------------------------
(* Pure functions of the source. *)

\* BigInt::new without the test for zero.
BigInt_new_keep_zero(x) == <<x>>

\* BigInt::new with the two branches exchanged.
BigInt_new_swapped(x) == IF x = 0 THEN <<x>> ELSE <<>>

\* BigInt::new, the limbs of the result.
BigInt_new(x) == IF x = 0 THEN <<>> ELSE <<x>>

\* test_invariant looking at the first limb instead of the last.
test_invariant_first(data) ==
    IF Len(data) = 0 THEN TRUE ELSE data[1] # 0

\* test_invariant rejecting the empty vector.
test_invariant_nonempty(data) ==
    IF Len(data) = 0 THEN FALSE ELSE data[Len(data)] # 0

\* BigInt::test_invariant on the limbs of self.
test_invariant(data) ==
    IF Len(data) = 0 THEN TRUE ELSE data[Len(data)] # 0

\* from_vec with `if` in place of `while`: at most one pop.
from_vec_once(v) ==
    IF Len(v) > 0 /\ v[Len(v)] = 0 THEN SubSeq(v, 1, Len(v) - 1) ELSE v

\* from_vec with the loop guard v.len() > 1.
RECURSIVE from_vec_keep_one(_)
from_vec_keep_one(v) ==
    IF Len(v) > 1 /\ v[Len(v)] = 0
    THEN from_vec_keep_one(SubSeq(v, 1, Len(v) - 1))
    ELSE v

\* from_vec removing every zero limb, not only the trailing ones.
from_vec_all_zeros(v) == LET nonzero(x) == x # 0 IN SelectSeq(v, nonzero)

\* BigInt::from_vec: pop while the vector is non-empty and ends in zero.
RECURSIVE from_vec(_)
from_vec(v) ==
    IF Len(v) > 0 /\ v[Len(v)] = 0
    THEN from_vec(SubSeq(v, 1, Len(v) - 1))
    ELSE v

\* A clone that loses the last limb.
Vec_clone_short(data) == [i \in 1..(Len(data) - 1) |-> data[i]]

\* Vec<u64>::clone as used by Clone for BigInt: an element-wise copy.
Vec_clone(data) == [i \in 1..Len(data) |-> data[i]]

\* The integer a limb vector denotes, least significant limb first.
RECURSIVE Value(_)
Value(v) == IF v = <<>> THEN 0 ELSE Head(v) + Base * Value(Tail(v))

----------------------------------------------------------------------------
(* The heap. *)

Limbs(s) == heap[big[s]]
Payload(s) == heap[opt[s].data]

\* heap after variable t is assigned a value whose new buffer holds v: the
\* buffer t owned before is released and the new one is t's.
Store(t, v) == [heap EXCEPT ![t] = v]

Init ==
    /\ heap = [x \in Addr |-> <<>>]
    /\ big = [s \in BigSlot |-> NoAddr]
    /\ prov = [s \in BigSlot |-> NoProv]
    /\ ret = NoRet
    /\ opt = [s \in OptSlot |-> Unset]
    /\ oprov = [s \in OptSlot |-> NoOProv]

----------------------------------------------------------------------------
(* Operations on BigInt. *)

\* t = BigInt::new(x)
new(t, x) ==
    /\ heap' = Store(t, BigInt_new(x))
    /\ big' = [big EXCEPT ![t] = t]
    /\ prov' = [prov EXCEPT ![t] = [op |-> "new", arg |-> <<x>>, re |-> FALSE]]
    /\ ret' = NoRet
    /\ UNCHANGED <<opt, oprov>>

\* t = BigInt::from_vec(v), v a vector built by the caller and moved in.
from_vec_move(t, v) ==
    /\ heap' = Store(t, from_vec(v))
    /\ big' = [big EXCEPT ![t] = t]
    /\ prov' = [prov EXCEPT ![t] = [op |-> "from_vec", arg |-> v, re |-> FALSE]]
    /\ ret' = NoRet
    /\ UNCHANGED <<opt, oprov>>

\* t = BigInt::from_vec((&s.data).clone()), the pattern of clone_demo.
from_vec_clone(s, t) ==
    /\ s # t
    /\ big[s] # NoAddr
    /\ heap' = Store(t, from_vec(Vec_clone(Limbs(s))))
    /\ big' = [big EXCEPT ![t] = t]
    /\ prov' = [prov EXCEPT ![t] = [op |-> "from_vec", arg |-> Limbs(s),
                                    re |-> prov[s].op = "from_vec"]]
    /\ ret' = NoRet
    /\ UNCHANGED <<opt, oprov>>

\* s = BigInt::from_vec(s.data): the vector is moved in and truncated in place.
from_vec_data(s) ==
    /\ big[s] # NoAddr
    /\ heap' = [heap EXCEPT ![big[s]] = from_vec(Limbs(s))]
    /\ prov' = [prov EXCEPT ![s] = [op |-> "from_vec", arg |-> Limbs(s),
                                    re |-> prov[s].op = "from_vec"]]
    /\ ret' = NoRet
    /\ UNCHANGED <<big, opt, oprov>>

\* A clone that copies the pointer: both values share one buffer.
BigInt_clone_shallow(s, t) ==
    /\ s # t
    /\ big[s] # NoAddr
    /\ heap' = heap
    /\ big' = [big EXCEPT ![t] = big[s]]
    /\ prov' = [prov EXCEPT ![t] = [op |-> "clone", arg |-> Limbs(s), re |-> FALSE]]
    /\ ret' = NoRet
    /\ UNCHANGED <<opt, oprov>>

\* t = s.clone()
BigInt_clone(s, t) ==
    /\ s # t
    /\ big[s] # NoAddr
    /\ heap' = Store(t, Vec_clone(Limbs(s)))
    /\ big' = [big EXCEPT ![t] = t]
    /\ prov' = [prov EXCEPT ![t] = [op |-> "clone", arg |-> Limbs(s), re |-> FALSE]]
    /\ ret' = NoRet
    /\ UNCHANGED <<opt, oprov>>

\* t = BigInt { data: v }: the field is public, no constructor is involved.
BigInt_literal(t, v) ==
    /\ heap' = Store(t, v)
    /\ big' = [big EXCEPT ![t] = t]
    /\ prov' = [prov EXCEPT ![t] = [op |-> "literal", arg |-> v, re |-> FALSE]]
    /\ ret' = NoRet
    /\ UNCHANGED <<opt, oprov>>

\* The provenance of a value after a write through its public field.
Written(p) == [op |-> "mut", arg |-> <<>>,
               re |-> p.op = "clone" \/ (p.op = "mut" /\ p.re)]

\* t.data.push(x)
data_push(t, x) ==
    /\ big[t] # NoAddr
    /\ Len(Limbs(t)) < MaxLen
    /\ heap' = [heap EXCEPT ![big[t]] = Append(@, x)]
    /\ prov' = [prov EXCEPT ![t] = Written(@)]
    /\ ret' = NoRet
    /\ UNCHANGED <<big, opt, oprov>>

\* t.data.pop()
data_pop(t) ==
    /\ big[t] # NoAddr
    /\ Len(Limbs(t)) > 0
    /\ heap' = [heap EXCEPT ![big[t]] = SubSeq(@, 1, Len(@) - 1)]
    /\ prov' = [prov EXCEPT ![t] = Written(@)]
    /\ ret' = NoRet
    /\ UNCHANGED <<big, opt, oprov>>

\* t.data[i-1] = x
data_set(t, i, x) ==
    /\ big[t] # NoAddr
    /\ i \in 1..Len(Limbs(t))
    /\ Limbs(t)[i] # x
    /\ heap' = [heap EXCEPT ![big[t]] = [@ EXCEPT ![i] = x]]
    /\ prov' = [prov EXCEPT ![t] = Written(@)]
    /\ ret' = NoRet
    /\ UNCHANGED <<big, opt, oprov>>

\* ret = s.test_invariant()
call_test_invariant(s) ==
    /\ big[s] # NoAddr
    /\ ret' = [slot |-> s, val |-> test_invariant(Limbs(s))]
    /\ UNCHANGED <<heap, big, prov, opt, oprov>>

----------------------------------------------------------------------------
(* Operations on SomethingOrNothing<BigInt>. *)

\* t = Nothing
opt_Nothing(t) ==
    /\ opt' = [opt EXCEPT ![t] = Nothing]
    /\ heap' = Store(t, <<>>)
    /\ oprov' = [oprov EXCEPT ![t] = NoOProv]
    /\ UNCHANGED <<big, prov, ret>>

\* t = Something(BigInt { data: v })
opt_Something(t, v) ==
    /\ opt' = [opt EXCEPT ![t] = Something(t)]
    /\ heap' = Store(t, v)
    /\ oprov' = [oprov EXCEPT ![t] = NoOProv]
    /\ UNCHANGED <<big, prov, ret>>

\* A clone whose second arm is Something(v): the payload is moved out of s.
SomethingOrNothing_clone_moving(s, t) ==
    /\ s # t
    /\ opt[s].tag # "Unset"
    /\ IF opt[s].tag = "Nothing"
       THEN /\ opt' = [opt EXCEPT ![t] = Nothing]
            /\ heap' = Store(t, <<>>)
            /\ oprov' = [oprov EXCEPT ![t] =
                            [op |-> "clone", tag |-> "Nothing", arg |-> <<>>]]
       ELSE /\ opt' = [opt EXCEPT ![t] = Something(t), ![s] = Unset]
            /\ heap' = [heap EXCEPT ![t] = Payload(s), ![s] = <<>>]
            /\ oprov' = [oprov EXCEPT ![t] =
                            [op |-> "clone", tag |-> "Something", arg |-> Payload(s)]]
    /\ UNCHANGED <<big, prov, ret>>

\* t = s.clone(): Nothing => Nothing, Something(ref v) => Something(v.clone())
SomethingOrNothing_clone(s, t) ==
    /\ s # t
    /\ opt[s].tag # "Unset"
    /\ IF opt[s].tag = "Nothing"
       THEN /\ opt' = [opt EXCEPT ![t] = Nothing]
            /\ heap' = Store(t, <<>>)
            /\ oprov' = [oprov EXCEPT ![t] =
                            [op |-> "clone", tag |-> "Nothing", arg |-> <<>>]]
       ELSE /\ opt' = [opt EXCEPT ![t] = Something(t)]
            /\ heap' = Store(t, Vec_clone(Payload(s)))
            /\ oprov' = [oprov EXCEPT ![t] =
                            [op |-> "clone", tag |-> "Something", arg |-> Payload(s)]]
    /\ UNCHANGED <<big, prov, ret>>

----------------------------------------------------------------------------
(* Specifications. *)

\* A program that builds and checks one BigInt.
Next ==
    \/ \E x \in Limb : new("b", x)
    \/ \E v \in LimbSeqs : from_vec_move("b", v)
    \/ from_vec_data("b")
    \/ \E v \in LimbSeqs : BigInt_literal("b", v)
    \/ \E x \in Limb : data_push("b", x)
    \/ data_pop("b")
    \/ \E i \in 1..MaxLen, x \in Limb : data_set("b", i, x)
    \/ call_test_invariant("b")

Spec == Init /\ [][Next]_vars

\* A program that builds b, clones it into d and writes to both.
NextClone ==
    \/ \E x \in Limb : new("b", x)
    \/ from_vec_clone("b", "d")
    \/ \E s \in BigSlot : from_vec_data(s)
    \/ BigInt_clone("b", "d")
    \/ \E t \in BigSlot, x \in Limb : data_push(t, x)
    \/ \E t \in BigSlot : data_pop(t)
    \/ \E t \in BigSlot, i \in 1..MaxLen, x \in Limb : data_set(t, i, x)

SpecClone == Init /\ [][NextClone]_vars

\* A program with two SomethingOrNothing<BigInt> that clones one into the other.
NextOpt ==
    \/ \E t \in OptSlot : opt_Nothing(t)
    \/ \E t \in OptSlot, v \in LimbSeqs : opt_Something(t, v)
    \/ \E s, t \in OptSlot : SomethingOrNothing_clone(s, t)

SpecOpt == Init /\ [][NextOpt]_vars

----------------------------------------------------------------------------
(* The properties. *)

Built(t, o) == big[t] # NoAddr /\ prov[t].op = o

\* C1: the limbs of from_vec(v) are the longest prefix of v that is empty or
\* ends in a non-zero limb: v without its trailing zeros, nothing else removed,
\* changed or reordered.
FromVecStripsTrailingZeros ==
    \A t \in BigSlot : Built(t, "from_vec") =>
        LET v == prov[t].arg IN
        \E k \in 0..Len(v) :
            /\ Limbs(t) = SubSeq(v, 1, k)
            /\ k = 0 \/ v[k] # 0
            /\ \A j \in (k + 1)..Len(v) : v[j] = 0

\* from_vec was given (0, 1, 0): a zero before the last non-zero limb and one after.
FromVecStripsWitness ==
    Built("b", "from_vec") /\ prov["b"].arg = <<0, 1, 0>> /\ Limbs("b") = <<0, 1>>

\* C2: every value returned by new or from_vec passes test_invariant, also
\* when test_invariant is called on it.
ConstructorsCanonical ==
    \A t \in BigSlot : (Built(t, "new") \/ Built(t, "from_vec")) =>
        /\ test_invariant(Limbs(t))
        /\ ret.slot = t => ret.val

\* test_invariant returned true on from_vec((1, 0, 0)).
ConstructorsCanonicalWitness ==
    /\ Built("b", "from_vec") /\ prov["b"].arg = <<1, 0, 0>>
    /\ ret.slot = "b" /\ ret.val

\* C3: new(0) has no limbs and new(x), x # 0, has the single limb x.
NewLimbs ==
    \A t \in BigSlot : Built(t, "new") =>
        LET x == prov[t].arg[1] IN
        /\ x = 0 => Limbs(t) = <<>>
        /\ x # 0 => Limbs(t) = <<x>>

\* new(MaxLimb) was called.
NewLimbsWitness ==
    Built("b", "new") /\ prov["b"].arg = <<MaxLimb>> /\ Len(Limbs("b")) = 1

\* C4: two canonical values have equal limbs exactly when they denote the same
\* integer, and two results of from_vec have equal limbs exactly when the
\* vectors they were built from denote the same integer.
CanonicalUnique ==
    \A s, t \in BigSlot :
        (big[s] # NoAddr /\ big[t] # NoAddr) =>
            /\ (test_invariant(Limbs(s)) /\ test_invariant(Limbs(t))) =>
                   ((Limbs(s) = Limbs(t)) <=> (Value(Limbs(s)) = Value(Limbs(t))))
            /\ (prov[s].op = "from_vec" /\ prov[t].op = "from_vec") =>
                   ((Limbs(s) = Limbs(t)) <=> (Value(prov[s].arg) = Value(prov[t].arg)))

\* from_vec of two different vectors of the same integer gave the same limbs.
CanonicalUniqueWitness ==
    /\ Built("b", "from_vec") /\ Built("d", "from_vec")
    /\ prov["b"].arg = <<0, 1>> /\ prov["d"].arg = <<0, 1, 0>>
    /\ Limbs("b") = Limbs("d")

\* C5: from_vec(v) denotes the integer v denotes.
FromVecPreservesValue ==
    \A t \in BigSlot : Built(t, "from_vec") =>
        Value(Limbs(t)) = Value(prov[t].arg)

\* from_vec was given the longest vector denoting Base: (0, 1, 0, ...).
FromVecPreservesValueWitness ==
    /\ Built("b", "from_vec") /\ Len(prov["b"].arg) = MaxLen
    /\ Value(prov["b"].arg) = Base /\ Limbs("b") # prov["b"].arg

\* C6: from_vec applied to the limbs of a result of from_vec returns them as
\* they are.
FromVecIdempotent ==
    \A t \in BigSlot : (Built(t, "from_vec") /\ prov[t].re) =>
        Limbs(t) = prov[t].arg

\* from_vec was applied a second time, to limbs (0, 1).
FromVecIdempotentWitness ==
    Built("b", "from_vec") /\ prov["b"].re /\ prov["b"].arg = <<0, 1>>

\* C7: the clone of b has the length and the limbs of b, index by index, and
\* is canonical when b is.
CloneFidelity ==
    \A t \in BigSlot : Built(t, "clone") =>
        LET v == prov[t].arg IN
        /\ Len(Limbs(t)) = Len(v)
        /\ \A i \in 1..Len(v) : Limbs(t)[i] = v[i]
        /\ test_invariant(v) => test_invariant(Limbs(t))

\* d is the clone of the canonical b = (1, 0, 1).
CloneFidelityWitness ==
    /\ Built("d", "clone") /\ prov["d"].arg = <<1, 0, 1>>
    /\ big["b"] # NoAddr /\ Limbs("b") = <<1, 0, 1>>

\* t is a clone, possibly written to since.
IsClone(t) == prov[t].op = "clone" \/ (prov[t].op = "mut" /\ prov[t].re)

\* A step that writes to the buffer of t: push, pop, overwrite, or from_vec
\* truncating t's vector in place.
Mutation(t) ==
    \/ \E x \in Limb : data_push(t, x)
    \/ data_pop(t)
    \/ \E i \in 1..MaxLen, x \in Limb : data_set(t, i, x)
    \/ from_vec_data(t)

\* s holds after the step the buffer and the limbs it held before it.
Untouched(s) == big'[s] = big[s] /\ heap'[big'[s]] = Limbs(s)

\* C8: cloning s leaves s as it was, and once one of two values is the clone
\* of the other, a write to either leaves the limbs of the other unchanged:
\* no step that changes s is a clone of s or such a write to the other value.
CloneIndependence ==
    [][\A s \in BigSlot : \A t \in BigSlot \ {s} :
         \/ big[s] = NoAddr
         \/ Untouched(s)
         \/ ~ \/ BigInt_clone(s, t)
              \/ (IsClone(s) \/ IsClone(t)) /\ Mutation(t)]_vars

\* d, a clone of b = (1, 0, 1), has been written to and differs from b.
CloneIndependenceWitness ==
    /\ Built("d", "mut") /\ prov["d"].re
    /\ big["b"] # NoAddr /\ Limbs("b") = <<1, 0, 1>> /\ Limbs("d") = <<1, 0>>

\* C9: the clone of Nothing is Nothing, the clone of Something(v) is
\* Something(v.clone()), and the cloned value keeps its variant and payload.
OptionalCloneStructural ==
    /\ [](\A t \in OptSlot : oprov[t].op = "clone" =>
            /\ oprov[t].tag = "Nothing" => opt[t] = Nothing
            /\ oprov[t].tag = "Something" =>
                   (opt[t].tag = "Something" /\ Payload(t) = Vec_clone(oprov[t].arg)))
    /\ [][\A s \in OptSlot : \A t \in OptSlot \ {s} :
            SomethingOrNothing_clone(s, t) =>
                /\ opt'[s] = opt[s]
                /\ opt[s].tag = "Something" => heap'[opt'[s].data] = Payload(s)]_vars

\* oc is the clone of o = Something((1, 0, 1)), and o still holds its payload.
OptionalCloneWitness ==
    /\ oprov["oc"].op = "clone" /\ oprov["oc"].tag = "Something"
    /\ oprov["oc"].arg = <<1, 0, 1>>
    /\ opt["o"].tag = "Something" /\ Payload("o") = <<1, 0, 1>>

\* C10: test_invariant returns true exactly when there are no limbs or the
\* last limb is not zero, whatever built the value, and changes nothing.
TestInvariantExact ==
    /\ [](ret.slot # "none" =>
            LET v == Limbs(ret.slot) IN
            ret.val <=> (v = <<>> \/ v[Len(v)] # 0))
    /\ [][\A s \in BigSlot : call_test_invariant(s) =>
            (heap' = heap /\ big' = big)]_vars

\* test_invariant returned false on BigInt { data: (0, 1, 0) }.
TestInvariantWitness ==
    /\ Built("b", "literal") /\ Limbs("b") = <<0, 1, 0>>
    /\ ret.slot = "b" /\ ~ret.val

====
